---- MODULE Spec2Model ----
(***************************************************************************)
(* Model of smtLayer/vmUtils.py (Feilong systems-management thin layer):   *)
(* the disk workflow installFS, the SMAPI invoker invokeSMCLI, the IUCV    *)
(* remote executor execCmdThruIUCV and the pollers waitForOSState and      *)
(* waitForVMState.                                                         *)
(*                                                                         *)
(* A Python dict is a heap object.  `results` is modelled as a reference:  *)
(* "local" for the dict literal the function builds, or a message id for   *)
(* the default dict msgs.msg[id][0] of the catalog, which the code assigns *)
(* without copying and then writes through.                                *)
(*                                                                         *)
(* Delays are in tenths of a second, so that 0.1 is 1 and the sentinel -1  *)
(* is -10.                                                                 *)
(***************************************************************************)
EXTENDS Integers, Sequences, FiniteSets, TLC

VARIABLES
    op,            \* the operation being executed
    pc,            \* position in that operation; "done" = returned, "raised" = an exception escaped
    raised,        \* name of the exception that escaped, "" if none
    results,       \* the `results` reference: "local" or a catalog message id
    local,         \* the dict literal built by the running operation
    msgs,          \* msgs.msg[id][0]: the catalog's default dicts (mutable, process wide)
    rh,            \* rh.results, the request handle's codes
    calls,         \* external commands handed to subprocess, in order, each with how it ended
    printLn,       \* lines given to rh.printLn: message id, command, exit status
    slept,         \* time.sleep() arguments, per retried step, in order
    \* ---- installFS locals
    diskType, fileSystem, out, device, diskAccessed, try_num, sleep_idx,
    \* ---- invokeSMCLI / execCmdThruIUCV
    input,         \* the arguments of the call and what the subprocess does
    parms,         \* the caller's parms list object, as the call leaves it
    logged,        \* the command words written to the system log
    executed,      \* the argument vector handed to subprocess.check_output
    goodHeader,    \* invokeSMCLI's goodHeader flag
    status,        \* calls made on the SMAPI health tracker (vmStatus)
    \* ---- waitForOSState / waitForVMState locals
    i, stateFnd

commonVars == <<op, pc, raised, results, local, msgs, rh, calls, printLn, slept>>
fsVars == <<diskType, fileSystem, out, device, diskAccessed, try_num, sleep_idx>>
cmdVars == <<input, parms, logged, executed, goodHeader, status>>
waitVars == <<i, stateFnd>>
vars == <<commonVars, fsVars, cmdVars, waitVars>>

(***************************************************************************)
(* Bounds of the model.                                                    *)
(***************************************************************************)
\* Non-zero exit statuses a failing command may report: 1..MaxExit.
MaxExit == 2

ExitCodes == 1..MaxExit

(***************************************************************************)
(* Result records and the message catalog.                                 *)
(***************************************************************************)
\* `response` holds the id of the message the text was rendered from, "payload"
\* for the command's own output, "" when the key was never set.
Rec(o, c, s, e) == [overallRC |-> o, rc |-> c, rs |-> s, errno |-> e, response |-> ""]

\* The dict literal every operation starts from.
FreshResults == Rec(0, 0, 0, 0)

\* msgs.msg[id][0] as shipped.  Every default record is a failure record.
MsgDefaults ==
    [id \in {"0301", "0302", "0303", "0304", "0305", "0401", "0404", "0406",
             "0413", "0414", "0415", "0416", "0417", "0421", "0424", "0501"} |->
        CASE id = "0301" -> Rec(25, 301, 0, 0)
          [] id = "0302" -> Rec(25, 302, 0, 0)
          [] id = "0303" -> Rec(25, 303, 0, 0)
          [] id = "0304" -> Rec(25, 304, 0, 0)
          [] id = "0305" -> Rec(99, 305, 0, 0)
          [] id = "0401" -> Rec(4, 7, 401, 0)
          [] id = "0404" -> Rec(4, 8, 404, 0)
          [] id = "0406" -> Rec(4, 9, 406, 0)
          [] id = "0413" -> Rec(99, 99, 413, 0)
          [] id = "0414" -> Rec(99, 99, 414, 0)
          [] id = "0415" -> Rec(3, 415, 0, 0)
          [] id = "0416" -> Rec(99, 99, 416, 0)
          [] id = "0417" -> Rec(99, 99, 417, 0)
          [] id = "0421" -> Rec(99, 421, 0, 0)
          [] id = "0424" -> Rec(4, 8, 424, 0)
          [] id = "0501" -> Rec(5, 1, 501, 0)]

MsgIds == DOMAIN MsgDefaults

\* The dict a reference denotes, given the heap (l, m).
DerefIn(ref, l, m) == IF ref = "local" THEN l ELSE m[ref]

Deref(ref) == DerefIn(ref, local, msgs)

\* rh.updateResults(d): the request handle takes over the codes of d.
UpdateResults(d) == [overallRC |-> d.overallRC, rc |-> d.rc, rs |-> d.rs, errno |-> d.errno]

\* rh.updateResults(d) for a dict d that holds only some of the codes: the
\* request handle takes over the codes d holds and keeps its others.
MergeResults(h, d) == [k \in DOMAIN h |-> IF k \in DOMAIN d THEN d[k] ELSE h[k]]

(***************************************************************************)
(* External commands.                                                      *)
(***************************************************************************)
\* What subprocess.check_output can do: return, raise CalledProcessError
\* (non-zero exit status), or raise anything else (OSError, ...).
Outcome(k, r) == [kind |-> k, returncode |-> r]

Outcomes == {Outcome("ok", 0), Outcome("exc", 0)} \cup {Outcome("cpe", r) : r \in ExitCodes}

\* One invocation: the command, its device argument, and how it ended.
Invocation(c, a, k) == [cmd |-> c, arg |-> a, kind |-> k]

Cmd(c, a) == [cmd |-> c, arg |-> a]

\* rh.printLn("ES", msgs.msg[id][1] % (..., strCmd, e.returncode, ...))
Line(id, c, r) == [id |-> id, cmd |-> c, returncode |-> r]

(***************************************************************************)
(* installFS                                                               *)
(***************************************************************************)
\* A schedule with one more delay before the sentinel.
RetryScheduleLonger == <<1, 2, 3, 5, 10, 20, 30, -10>>

\* The retry schedule of the three retried steps, in tenths of a second.
RetrySchedule == <<1, 2, 3, 5, 10, 20, -10>>

\* A local variable that no assignment has reached yet.
Unbound == "<unbound>"

\* Output of linkdiskandbringonline: whether it holds the "Success:" marker,
\* whether a character other than the newline follows the marker (pad: a blank,
\* or the words), whether a newline ends that line, and the words that follow
\* the marker.
LinkOut(m, p, e, w) == [marker |-> m, pad |-> p, eol |-> e, parts |-> w]

SampleWords ==
    <<"Userid", "maint", "vdev", "193", "linked", "at", "ad35", "device", "name",
      "dasdh", "extra">>

LinkOutputs ==
    { LinkOut(TRUE, TRUE, TRUE, SubSeq(SampleWords, 1, 10)),
      LinkOut(TRUE, TRUE, TRUE, SubSeq(SampleWords, 1, 11)),
      LinkOut(TRUE, TRUE, TRUE, SubSeq(SampleWords, 1, 9)),
      LinkOut(TRUE, TRUE, TRUE, <<>>),
      LinkOut(TRUE, FALSE, TRUE, <<>>),
      LinkOut(TRUE, TRUE, FALSE, SubSeq(SampleWords, 1, 10)),
      LinkOut(FALSE, FALSE, TRUE, <<>>) }

\* Output of any other command: it is never searched for the marker.
OtherOutput == LinkOut(FALSE, FALSE, TRUE, <<>>)

\* re.search('Success:(.+?)\n', out): the marker, at least one character, a newline.
SuccessMatch(o) == o.marker /\ o.pad /\ o.eol

\* The mkfs command line chosen for the file system.
MkfsCmd(fs) == IF fs = "swap" THEN "mkswap" ELSE IF fs = "xfs" THEN "mkfs.xfs" ELSE "mkfs"

\* A handler that forgets `results['rs'] = e.returncode`.
Fail0415NoReason(c, r) ==
    /\ printLn' = Append(printLn, Line("0415", c, r))
    /\ results' = "0415"
    /\ rh' = UpdateResults(msgs["0415"])
    /\ UNCHANGED <<local, msgs>>

\* A handler that reports the failure but leaves `results` as it was.
Fail0415KeepsResults(c, r) ==
    /\ printLn' = Append(printLn, Line("0415", c, r))
    /\ rh' = UpdateResults([msgs["0415"] EXCEPT !.rs = r])
    /\ UNCHANGED <<results, local, msgs>>

\* `results = msgs.msg['0415'][0]; results['rs'] = e.returncode; rh.updateResults(results)`
Fail0415(c, r) ==
    /\ printLn' = Append(printLn, Line("0415", c, r))
    /\ results' = "0415"
    /\ msgs' = [msgs EXCEPT !["0415"].rs = r]
    /\ rh' = UpdateResults(msgs'["0415"])
    /\ UNCHANGED local

\* `results = msgs.msg['0421'][0]`, followed by rh.updateResults(results) where upd.
Fail0421(c, upd) ==
    /\ printLn' = Append(printLn, Line("0421", c, 0))
    /\ results' = "0421"
    /\ rh' = IF upd THEN UpdateResults(msgs["0421"]) ELSE rh
    /\ UNCHANGED <<local, msgs>>

\* `results = msgs.msg[id][0]; rh.updateResults(results)`
FailMsg(id, c) ==
    /\ printLn' = Append(printLn, Line(id, c, 0))
    /\ results' = id
    /\ rh' = UpdateResults(msgs[id])
    /\ UNCHANGED <<local, msgs>>

Succeeds == UNCHANGED <<results, local, msgs, rh, printLn>>

\* A handler that treats the failure as every other step does.
WarnAsFailure(c) == Fail0421(c, TRUE)

\* `except Exception: rh.printLn("WS", wmesg)`: a warning, nothing else.
Warn(c) ==
    /\ printLn' = Append(printLn, Line("WS", c, 0))
    /\ UNCHANGED <<results, local, msgs, rh>>

\* A comparison that gives up on the shortest delay.
ShouldRetryStrict(sleep_secs) == sleep_secs > 1

\* `if sleep_secs > 0`: sleep and try again; otherwise re-raise.
ShouldRetry(sleep_secs) == sleep_secs > 0

\* The loop `for sleep_secs in [...]` around one command: attempt number
\* sleep_idx + 1 of `step`.  On success the loop is left; on a non-zero exit it
\* sleeps and goes on while the delay is positive and re-raises otherwise, which
\* the enclosing handler turns into the 0415 record; any other exception
\* leaves the loop at once for the 0421 record.
RetryAttempt(step, c, next, o, updOnExc) ==
    LET n == sleep_idx + 1
        sleep_secs == RetrySchedule[n]
    IN  /\ try_num' = n
        /\ calls' = Append(calls, Invocation(c.cmd, c.arg, o.kind))
        /\ CASE o.kind = "ok" ->
                  /\ Succeeds
                  /\ sleep_idx' = 0
                  /\ pc' = next
                  /\ UNCHANGED slept
             [] o.kind = "cpe" /\ ShouldRetry(sleep_secs) ->
                  /\ slept' = [slept EXCEPT ![step] = Append(@, sleep_secs)]
                  /\ Succeeds
                  /\ IF n < Len(RetrySchedule)
                        THEN sleep_idx' = n /\ pc' = pc
                        ELSE sleep_idx' = 0 /\ pc' = next
             [] o.kind = "cpe" /\ ~ShouldRetry(sleep_secs) ->
                  /\ Fail0415(c.cmd, o.returncode)
                  /\ sleep_idx' = 0
                  /\ pc' = next
                  /\ UNCHANGED slept
             [] OTHER ->
                  /\ Fail0421(c.cmd, updOnExc)
                  /\ sleep_idx' = 0
                  /\ pc' = next
                  /\ UNCHANGED slept

\* A step without handlers for the failure of its command.
RunOnceUnchecked(c, next, o) ==
    /\ calls' = Append(calls, Invocation(c.cmd, c.arg, o.kind))
    /\ pc' = next
    /\ Succeeds

\* One command run once inside try/except: 0415 on a non-zero exit, 0421 on
\* any other exception.
RunOnce(c, next, o) ==
    /\ calls' = Append(calls, Invocation(c.cmd, c.arg, o.kind))
    /\ pc' = next
    /\ CASE o.kind = "ok" -> Succeeds
         [] o.kind = "cpe" -> Fail0415(c.cmd, o.returncode)
         [] OTHER -> Fail0421(c.cmd, TRUE)

\* A block whose `if` is false.
Skip(next) ==
    /\ pc' = next
    /\ UNCHANGED <<results, local, msgs, rh, calls, printLn>>

Ok == Deref(results).overallRC = 0

\* Get access to the disk.
Link ==
    /\ op = "installFS" /\ pc = "link"
    /\ \E o \in Outcomes, text \in LinkOutputs :
          /\ RetryAttempt("link", Cmd("linkdiskandbringonline", ""), "locate", o, FALSE)
          /\ out' = IF o.kind = "ok" THEN text ELSE out
          /\ diskAccessed' = IF o.kind = "ok" THEN TRUE ELSE diskAccessed
    /\ UNCHANGED <<op, raised, diskType, fileSystem, device, cmdVars, waitVars>>

\* Find the device name in the output of the link command.
Locate ==
    /\ op = "installFS" /\ pc = "locate"
    /\ pc' = "dasdfmt"
    /\ IF Ok
          THEN IF SuccessMatch(out)
                  THEN IF Len(out.parts) > 9
                          THEN /\ device' = "/dev/" \o out.parts[10]
                               /\ Succeeds
                          ELSE /\ FailMsg("0416", "linkdiskandbringonline")
                               /\ UNCHANGED device
                  ELSE /\ FailMsg("0417", "linkdiskandbringonline")
                       /\ UNCHANGED device
          ELSE /\ Succeeds
               /\ UNCHANGED device
    /\ UNCHANGED <<op, raised, calls, slept, diskType, fileSystem, out, diskAccessed,
                   try_num, sleep_idx, cmdVars, waitVars>>

\* dasdfmt the disk (3390 only).
Dasdfmt ==
    /\ op = "installFS" /\ pc = "dasdfmt"
    /\ IF Ok /\ diskType = "3390"
          THEN \E o \in Outcomes :
                  /\ RunOnce(Cmd("dasdfmt", device), "settle3390", o)
                  /\ out' = IF o.kind = "ok" THEN OtherOutput ELSE out
          ELSE Skip("settle3390") /\ UNCHANGED out
    /\ UNCHANGED <<op, raised, slept, diskType, fileSystem, device, diskAccessed,
                   try_num, sleep_idx, cmdVars, waitVars>>

\* Settle the devices so that the partition can be made (3390 only).
Settle3390 ==
    /\ op = "installFS" /\ pc = "settle3390"
    /\ IF Ok /\ diskType = "3390"
          THEN \E o \in Outcomes : RunOnce(Cmd("udevsettle", ""), "fdasd", o)
          ELSE Skip("fdasd")
    /\ UNCHANGED <<op, raised, slept, fsVars, cmdVars, waitVars>>

\* Prepare the partition with fdasd (3390 only).
Fdasd ==
    /\ op = "installFS" /\ pc = "fdasd"
    /\ IF Ok /\ diskType = "3390"
          THEN \E o \in Outcomes :
                  /\ RunOnce(Cmd("fdasd", device), "fdiskDel", o)
                  /\ out' = IF o.kind = "ok" THEN OtherOutput ELSE out
          ELSE Skip("fdiskDel") /\ UNCHANGED out
    /\ UNCHANGED <<op, raised, slept, diskType, fileSystem, device, diskAccessed,
                   try_num, sleep_idx, cmdVars, waitVars>>

\* Delete the existing partition table (9336 only).
FdiskDelete ==
    /\ op = "installFS" /\ pc = "fdiskDel"
    /\ IF Ok /\ diskType = "9336"
          THEN \E o \in Outcomes :
                  /\ RunOnce(Cmd("fdisk-delete", device), "fdiskNew", o)
                  /\ out' = IF o.kind = "ok" THEN OtherOutput ELSE out
          ELSE Skip("fdiskNew") /\ UNCHANGED out
    /\ UNCHANGED <<op, raised, slept, diskType, fileSystem, device, diskAccessed,
                   try_num, sleep_idx, cmdVars, waitVars>>

\* Prepare the partition with fdisk, retried (9336 only).
FdiskCreate ==
    /\ op = "installFS" /\ pc = "fdiskNew"
    /\ IF Ok /\ diskType = "9336"
          THEN \E o \in Outcomes :
                  /\ RetryAttempt("fdiskNew", Cmd("fdisk-create", device), "settle", o, TRUE)
                  /\ out' = IF o.kind = "ok" THEN OtherOutput ELSE out
          ELSE Skip("settle") /\ UNCHANGED <<out, slept, try_num, sleep_idx>>
    /\ UNCHANGED <<op, raised, diskType, fileSystem, device, diskAccessed, cmdVars, waitVars>>

\* Settle the devices (both disk types).
Settle ==
    /\ op = "installFS" /\ pc = "settle"
    /\ IF Ok
          THEN \E o \in Outcomes : RunOnce(Cmd("udevsettle", ""), "mkfs", o)
          ELSE Skip("mkfs")
    /\ UNCHANGED <<op, raised, slept, fsVars, cmdVars, waitVars>>

\* Install the file system into the first partition, retried.
Mkfs ==
    /\ op = "installFS" /\ pc = "mkfs"
    /\ IF Ok
          THEN LET partition == IF sleep_idx = 0 THEN device \o "1" ELSE device
               IN  \E o \in Outcomes :
                      /\ device' = partition
                      /\ RetryAttempt("mkfs", Cmd(MkfsCmd(fileSystem), partition),
                                      "flush", o, TRUE)
                      /\ out' = IF o.kind = "ok" THEN OtherOutput ELSE out
          ELSE Skip("flush") /\ UNCHANGED <<out, device, slept, try_num, sleep_idx>>
    /\ UNCHANGED <<op, raised, diskType, fileSystem, diskAccessed, cmdVars, waitVars>>

\* diskAccessed is forced to True; flush the disk buffers.  The command line is
\* built from `device` outside any try: an unbound `device` raises
\* UnboundLocalError, which leaves installFS.  A failure of the command itself is
\* a warning only.
Flush ==
    /\ op = "installFS" /\ pc = "flush"
    /\ diskAccessed' = TRUE
    /\ IF device = Unbound
          THEN /\ pc' = "raised"
               /\ raised' = "UnboundLocalError"
               /\ UNCHANGED <<calls, out>>
               /\ Succeeds
          ELSE \E o \in Outcomes :
                  /\ calls' = Append(calls, Invocation("blockdev-flushbufs", device, o.kind))
                  /\ IF o.kind = "ok" THEN Succeeds ELSE Warn("blockdev-flushbufs")
                  /\ out' = IF o.kind = "ok" THEN OtherOutput ELSE out
                  /\ pc' = "detach"
                  /\ UNCHANGED raised
    /\ UNCHANGED <<op, slept, diskType, fileSystem, device, try_num, sleep_idx, cmdVars,
                   waitVars>>

\* Give up the disk.
Detach ==
    /\ op = "installFS" /\ pc = "detach"
    /\ \E o \in Outcomes :
          /\ RunOnce(Cmd("offlinediskanddetach", ""), "done", o)
          /\ out' = IF o.kind = "ok" THEN OtherOutput ELSE out
    /\ UNCHANGED <<op, raised, slept, diskType, fileSystem, device, diskAccessed,
                   try_num, sleep_idx, cmdVars, waitVars>>

\* installFS is entered: the locals as the code initialises them.
EnterInstallFS(dt, fs) ==
    /\ op' = "installFS"
    /\ pc' = "link"
    /\ raised' = ""
    /\ results' = "local"
    /\ local' = FreshResults
    /\ rh' = UpdateResults(FreshResults)
    /\ calls' = <<>>
    /\ printLn' = <<>>
    /\ slept' = [s \in {"link", "fdiskNew", "mkfs"} |-> <<>>]
    /\ diskType' = dt
    /\ fileSystem' = fs
    /\ out' = LinkOut(FALSE, FALSE, FALSE, <<>>)
    /\ device' = Unbound
    /\ diskAccessed' = FALSE
    /\ try_num' = 0
    /\ sleep_idx' = 0

DiskTypes == {"3390", "9336"}

FileSystems == {"swap", "xfs", "ext4"}

\* A later call of installFS in the same process, with a new request handle;
\* the catalog is the one the earlier calls left.
CallInstallFS ==
    /\ op = "installFS" /\ pc \in {"done", "raised"}
    /\ \E dt \in DiskTypes, fs \in FileSystems : EnterInstallFS(dt, fs)
    /\ UNCHANGED <<msgs, cmdVars, waitVars>>

\* No waitForOSState or waitForVMState call is in progress.
WaitIdle == i = 0 /\ stateFnd = FALSE

\* No invokeSMCLI or execCmdThruIUCV call is in progress.
CmdIdle ==
    /\ input = <<>> /\ parms = <<>> /\ logged = <<>>
    /\ executed = <<>> /\ goodHeader = FALSE /\ status = <<>>

InitInstallFS ==
    /\ op = "installFS" /\ pc = "link" /\ raised = ""
    /\ results = "local" /\ local = FreshResults /\ rh = UpdateResults(FreshResults)
    /\ msgs = MsgDefaults
    /\ calls = <<>> /\ printLn = <<>>
    /\ slept = [s \in {"link", "fdiskNew", "mkfs"} |-> <<>>]
    /\ diskType \in DiskTypes /\ fileSystem \in FileSystems
    /\ out = LinkOut(FALSE, FALSE, FALSE, <<>>)
    /\ device = Unbound /\ diskAccessed = FALSE
    /\ try_num = 0 /\ sleep_idx = 0
    /\ CmdIdle
    /\ WaitIdle

NextInstallFS ==
    \/ Link \/ Locate \/ Dasdfmt \/ Settle3390 \/ Fdasd \/ FdiskDelete \/ FdiskCreate
    \/ Settle \/ Mkfs \/ Flush \/ Detach \/ CallInstallFS

SpecInstallFS == InitInstallFS /\ [][NextInstallFS]_vars

(***************************************************************************)
(* Reading the history of a call.                                          *)
(***************************************************************************)
RetriedSteps == {"link", "fdiskNew", "mkfs"}

\* The commands a retried step runs, and the position the step leaves for.
StepCmds(s) ==
    CASE s = "link" -> {"linkdiskandbringonline"}
      [] s = "fdiskNew" -> {"fdisk-create"}
      [] OTHER -> {"mkswap", "mkfs.xfs", "mkfs"}

StepNext(s) == CASE s = "link" -> "locate" [] s = "fdiskNew" -> "settle" [] OTHER -> "flush"

AfterLinkCmds ==
    {"dasdfmt", "udevsettle", "fdasd", "fdisk-delete", "fdisk-create",
     "mkswap", "mkfs.xfs", "mkfs"}

Attempts(cmds) == SelectSeq(calls, LAMBDA c : c.cmd \in cmds)

Count(cmds) == Len(Attempts(cmds))

\* The first n invocations of att all ended with a non-zero exit status.
FirstFail(att, n) == Len(att) >= n /\ \A k \in 1..n : att[k].kind = "cpe"

Lines(cmds) == SelectSeq(printLn, LAMBDA l : l.cmd \in cmds /\ l.id = "0415")

Codes(r) == <<r.overallRC, r.rc, r.rs>>

\* The schedule as the specification states it, in tenths of a second.
StatedSchedule == <<1, 2, 3, 5, 10, 20, -10>>

Ended == op = "installFS" /\ pc \in {"done", "raised"}

(***************************************************************************)
(* Claims about installFS.                                                 *)
(***************************************************************************)
\* C1: whenever installFS has ended (returned or raised), offlinediskanddetach
\* has been invoked during that call.
C1_DetachOnEveryExit == Ended => Count({"offlinediskanddetach"}) >= 1

\* C2: installFS never ends with an exception escaping to its caller.
C2_NoRawFault == op = "installFS" => (pc # "raised" /\ raised = "")

\* C3: when filesystem creation was reached and failed on all 7 attempts, then
\* at return the flush and the detach have each run exactly once, flush first,
\* and the returned record is a failure whose rs is the exit status of the
\* filesystem tool.
C3_MkfsFailureReported ==
    (op = "installFS" /\ pc = "done" /\ FirstFail(Attempts(StepCmds("mkfs")), 7))
        => /\ Count({"blockdev-flushbufs"}) = 1
           /\ Count({"offlinediskanddetach"}) = 1
           /\ calls[Len(calls) - 1].cmd = "blockdev-flushbufs"
           /\ calls[Len(calls)].cmd = "offlinediskanddetach"
           /\ Deref(results).overallRC # 0
           /\ Len(Lines(StepCmds("mkfs"))) = 1
           /\ Deref(results).rs = Lines(StepCmds("mkfs"))[1].returncode

\* C4: the detach step leaves the codes (overallRC, rc, rs) of the returned
\* record as they were when an earlier step has already failed.
C4_DetachKeepsEarlierFailure ==
    [][(op = "installFS" /\ pc = "detach" /\ ~Ok)
          => Codes(DerefIn(results', local', msgs')) = Codes(Deref(results))]_vars

\* C5: when linkdiskandbringonline exits non-zero on all 7 attempts, installFS
\* returns the 0415 record with rs = that exit status, and no locate, format,
\* partition, settle or mkfs command has run.
C5_AcquireExhausted ==
    (Ended /\ FirstFail(Attempts(StepCmds("link")), 7))
        => /\ pc = "done"
           /\ results = "0415"
           /\ Len(Lines(StepCmds("link"))) = 1
           /\ Codes(Deref(results)) =
                 <<MsgDefaults["0415"].overallRC, MsgDefaults["0415"].rc,
                   Lines(StepCmds("link"))[1].returncode>>
           /\ Count(AfterLinkCmds) = 0

\* C6: for each retried step, when the command exits non-zero k < 7 times and
\* then succeeds, the step has ended after exactly k+1 invocations, with success,
\* and has slept exactly the first k delays of the schedule, in order; and
\* while only those k > 0 failures have happened, the step has slept the first
\* k delays and is still in its loop, about to invoke the command again.
C6_RetrySucceedsAfterK ==
    \A s \in RetriedSteps : \A k \in 0..6 :
        LET att == Attempts(StepCmds(s))
        IN  /\ (op = "installFS" /\ FirstFail(att, k) /\ Len(att) > k /\ att[k + 1].kind = "ok")
                   => /\ Len(att) = k + 1
                      /\ pc # s
                      /\ slept[s] = SubSeq(StatedSchedule, 1, k)
                      /\ (pc = StepNext(s) => Ok)
            /\ (op = "installFS" /\ FirstFail(att, k) /\ Len(att) = k /\ k > 0)
                   => /\ pc = s
                      /\ slept[s] = SubSeq(StatedSchedule, 1, k)

C6_Witness ==
    /\ op = "installFS" /\ pc = "flush" /\ Ok
    /\ Attempts(StepCmds("mkfs")) # <<>>
    /\ Count(StepCmds("mkfs")) = 4
    /\ FirstFail(Attempts(StepCmds("mkfs")), 3)
    /\ slept["mkfs"] = <<1, 2, 3>>
    /\ Len(slept["link"]) = 2

\* C7: for each retried step, a command that exits non-zero every time is
\* invoked exactly 7 times, never more; the loop is then over and the step's
\* outcome is the 0415 failure with rs = the exit status of the 7th invocation.
C7_RetryExhausted ==
    \A s \in RetriedSteps :
        LET att == Attempts(StepCmds(s))
        IN  op = "installFS" =>
              /\ Len(att) <= 7
              /\ FirstFail(att, 7) =>
                    /\ pc # s
                    /\ slept[s] = SubSeq(StatedSchedule, 1, 6)
                    /\ pc = StepNext(s) =>
                          /\ results = "0415"
                          /\ Deref(results).overallRC # 0
                          /\ printLn # <<>>
                          /\ printLn[Len(printLn)].cmd \in StepCmds(s)
                          /\ Deref(results).rs = printLn[Len(printLn)].returncode

C7_Witness ==
    /\ op = "installFS" /\ pc = "settle"
    /\ FirstFail(Attempts(StepCmds("fdiskNew")), 7)
    /\ Deref(results).rs = 2

(***************************************************************************)
(* Text.  A text is a sequence of atoms: the blank Sp, or a word (a run of   *)
(* characters other than the blank).                                       *)
(***************************************************************************)
Sp == " "

RECURSIVE SplitFrom(_, _, _)
SplitFrom(s, cur, acc) ==
    IF s = <<>> THEN Append(acc, cur)
    ELSE IF Head(s) = Sp THEN SplitFrom(Tail(s), "", Append(acc, cur))
    ELSE SplitFrom(Tail(s), cur \o Head(s), acc)

\* str.split(' '): cut at every single blank; two blanks in a row, or a blank
\* at either end, give an empty word.
Split(s) == SplitFrom(s, "", <<>>)

RECURSIVE Join(_)
\* ' '.join(words)
Join(ws) ==
    IF ws = <<>> THEN <<>>
    ELSE (IF ws[1] = "" THEN <<>> ELSE <<ws[1]>>)
            \o (IF Len(ws) = 1 THEN <<>> ELSE <<Sp>> \o Join(Tail(ws)))

\* The whitespace-separated tokens of a text.
Tokens(s) == SelectSeq(s, LAMBDA a : a # Sp)

\* int(word): defined on the decimal words the model uses; any other word
\* (and the empty word) raises ValueError.
ParseInt ==
    [w \in {"1", "2", "4", "7", "8", "12", "16", "24", "25", "32", "1007"} |->
        CASE w = "1" -> 1 [] w = "2" -> 2 [] w = "4" -> 4 [] w = "7" -> 7 [] w = "8" -> 8
          [] w = "12" -> 12 [] w = "16" -> 16 [] w = "24" -> 24 [] w = "25" -> 25
          [] w = "32" -> 32 [] w = "1007" -> 1007]

IsInt(w) == w \in DOMAIN ParseInt

\* `x in 'VMRELOCATE'` and the like: x occurs in y as a run of characters.
IsSubstring(x, y) ==
    \E at \in 0..(Len(y) - Len(x)) : SubSeq(y, at + 1, at + Len(x)) = x

(***************************************************************************)
(* The heap while one operation runs: the `results` reference, the local   *)
(* dict and the catalog.                                                   *)
(***************************************************************************)
Heap(r, l, m, g) == [ref |-> r, local |-> l, msgs |-> m, good |-> g]

Cur(h) == DerefIn(h.ref, h.local, h.msgs)

\* results[f] = v, written through the reference.
Put(h, f, v) ==
    IF h.ref = "local" THEN [h EXCEPT !.local[f] = v]
    ELSE [h EXCEPT !.msgs[h.ref][f] = v]

\* results = msgs.msg[id][0]; results['response'] = msgs.msg[id][1] % (...)
Point(h, id) == Put([h EXCEPT !.ref = id], "response", id)

NotGood(h) == [h EXCEPT !.good = FALSE]

(***************************************************************************)
(* invokeSMCLI                                                             *)
(***************************************************************************)
DEFAULT_SMAPI_SOCKET_LONG_CALL_TIMEOUT_SECONDS == 900

DEFAULT_SMAPI_SOCKET_TIMEOUT_SECONDS == 240

\* The characters of the api names the model uses.
ApiChars ==
    [a \in {"VMRELOCATE", "VM", "", "Image_Query_DM"} |->
        CASE a = "VMRELOCATE" -> <<"V", "M", "R", "E", "L", "O", "C", "A", "T", "E">>
          [] a = "VM" -> <<"V", "M">>
          [] a = "" -> <<>>
          [] a = "Image_Query_DM" ->
                <<"I", "m", "a", "g", "e", "_", "Q", "u", "e", "r", "y", "_", "D", "M">>]

Apis == DOMAIN ApiChars

\* SOCKET_LONG_CALL_APIS = ('VMRELOCATE'): a string, not a tuple.
SOCKET_LONG_CALL_APIS == ApiChars["VMRELOCATE"]

\* `api in SOCKET_LONG_CALL_APIS`
IsLongCall(a) == IsSubstring(ApiChars[a], SOCKET_LONG_CALL_APIS)

\* The value after --timeout; a configured value of 0 (or None) is false.
SocketTimeout(a, conf) ==
    IF IsLongCall(a)
       THEN IF conf.long # 0 THEN conf.long
            ELSE IF conf.general # 0 THEN conf.general
            ELSE DEFAULT_SMAPI_SOCKET_LONG_CALL_TIMEOUT_SECONDS
       ELSE IF conf.general # 0 THEN conf.general
            ELSE DEFAULT_SMAPI_SOCKET_TIMEOUT_SECONDS

\* `for i in hideInLog: logParms[i] = '<hidden>'` (positions counted from 1 here).
Mask(ws, hide) == [pos \in 1..Len(ws) |-> IF pos \in hide THEN "<hidden>" ELSE ws[pos]]

\* The list object `parms` after the logging block: with hideInLog empty it is
\* untouched; otherwise `logParms = parms` names the same list, so the masking
\* loop writes into parms itself.
ParmsAfterLog(p, hide) == IF hide = {} THEN p ELSE Mask(p, hide)

\* The words logged for parms.
LoggedParms(p, hide) == IF hide = {} THEN p ELSE Mask(p, hide)

\* A decoder that lets a third word that is no integer pass.
DecodeHeaderLenient(codes, h0) ==
    LET a0 == [h0 EXCEPT !.good = TRUE]
        a1 == IF IsInt(codes[1])
                 THEN LET w == Put(a0, "overallRC", ParseInt[codes[1]])
                      IN  IF ParseInt[codes[1]] \in {8, 24, 25} THEN w
                          ELSE Point(Put(w, "overallRC", 25), "0302")
                 ELSE Point(Put(NotGood(a0), "overallRC", 25), "0302")
        a2 == IF IsInt(codes[2])
                 THEN Put(a1, "rc", ParseInt[codes[2]])
                 ELSE Point(NotGood(a1), "0303")
    IN  IF IsInt(codes[3])
           THEN IF Cur(a2).overallRC = 8 THEN Put(a2, "rs", ParseInt[codes[3]])
                ELSE IF Cur(a2).overallRC = 25 THEN Put(a2, "errno", ParseInt[codes[3]])
                ELSE a2
           ELSE a2

\* The header words decoded into the record; on a word that does not decode,
\* `results` is re-pointed at the catalog's default record and the later
\* assignments go there.
DecodeHeader(codes, h0) ==
    LET a0 == [h0 EXCEPT !.good = TRUE]
        a1 == IF IsInt(codes[1])
                 THEN LET w == Put(a0, "overallRC", ParseInt[codes[1]])
                      IN  IF ParseInt[codes[1]] \in {8, 24, 25} THEN w
                          ELSE Point(Put(w, "overallRC", 25), "0302")
                 ELSE Point(Put(NotGood(a0), "overallRC", 25), "0302")
        a2 == IF IsInt(codes[2])
                 THEN Put(a1, "rc", ParseInt[codes[2]])
                 ELSE Point(NotGood(a1), "0303")
        a3 == IF IsInt(codes[3])
                 THEN IF Cur(a2).overallRC = 8 THEN Put(a2, "rs", ParseInt[codes[3]])
                      ELSE IF Cur(a2).overallRC = 25 THEN Put(a2, "errno", ParseInt[codes[3]])
                      ELSE a2
                 ELSE Point(NotGood(a2), "0304")
    IN  a3

\* The `except CalledProcessError` branch up to `results['strError'] = ...`:
\* the first line is cut at '(details)' and the part before it at every blank.
ParseFailure(output, h0) ==
    LET codes == Split(output.hdr)
    IN  IF Len(codes) < 3 THEN Point(h0, "0301") ELSE DecodeHeader(codes, h0)

\* What invokeSMCLI does with the outcome of the subprocess: the heap it leaves,
\* the health-tracker calls and the exception that escapes ("" if none).
\* smcliResp[1] exists only when the output holds a newline; without one the
\* index raises IndexError, inside the try on success (caught, 0305) and inside
\* the except branch on failure (not caught).
SmcliOutcome(res, h0) ==
    CASE res.kind = "ok" ->
            IF res.nl
               THEN [heap |-> Put(Put(Put(h0, "response", "payload"), "overallRC", 0), "rc", 0),
                     status |-> <<"RecordSuccess">>, raised |-> ""]
               ELSE [heap |-> Point(h0, "0305"), status |-> <<>>, raised |-> ""]
      [] res.kind = "cpe" ->
            LET h == ParseFailure(res, h0)
            IN  IF ~h.good THEN [heap |-> h, status |-> <<"RecordFail">>, raised |-> ""]
                ELSE IF res.nl
                   THEN [heap |-> Put(h, "response", "0300"),
                         status |-> <<"RecordFail">>, raised |-> ""]
                   ELSE [heap |-> h, status |-> <<"RecordFail">>, raised |-> "IndexError"]
      [] OTHER -> [heap |-> Point(h0, "0305"), status |-> <<>>, raised |-> ""]

\* ---- the inputs the model draws
SmcliResult(k, hdr, d, nl) == [kind |-> k, hdr |-> hdr, details |-> d, nl |-> nl]

Conf(l, g) == [long |-> l, general |-> g]

HeaderWords ==
    LET First == {"8", "24", "25", "7", "x"}
        Second == {"4", "1", "x"}
        Third == {"12", "1007", "x"}
    IN  {<<>>} \cup {<<a>> : a \in First}
          \cup {<<a, b>> : a \in First, b \in Second}
          \cup {<<a[1], a[2], c>> : a \in First \X Second, c \in Third}

\* The words laid out with single blanks; with a blank in front; with a blank
\* behind (as before '(details)'); with two blanks after the first word.
Layouts(ws) ==
    {Join(ws), <<Sp>> \o Join(ws), Join(ws) \o <<Sp>>}
       \cup (IF Len(ws) >= 2 THEN {<<ws[1], Sp, Sp>> \o Join(Tail(ws))} ELSE {})

Headers == UNION {Layouts(ws) : ws \in HeaderWords}

FailureOutputs == {SmcliResult("cpe", hdr, d, nl) : hdr \in Headers, d \in BOOLEAN, nl \in BOOLEAN}

ParmsCases ==
    { [parms |-> <<"-T", "user1">>, hideInLog |-> {}],
      [parms |-> <<"-T", "user1", "-p", "secret">>, hideInLog |-> {4}],
      [parms |-> <<"-u", "admin", "-p", "secret">>, hideInLog |-> {2, 4}] }

Confs == {Conf(l, g) : l \in {0, 600}, g \in {0, 300}}

SmcliCall(a, pc_, c, r) ==
    [api |-> a, parms |-> pc_.parms, hideInLog |-> pc_.hideInLog, conf |-> c, result |-> r]

SmcliInputs ==
    {SmcliCall(a, p, c, r) :
        a \in Apis, p \in ParmsCases, c \in Confs,
        r \in {SmcliResult("ok", <<>>, FALSE, TRUE), SmcliResult("ok", <<>>, FALSE, FALSE),
               SmcliResult("exc", <<>>, FALSE, FALSE),
               SmcliResult("cpe", <<"8", Sp, "4", Sp, "12", Sp>>, TRUE, TRUE)}}
    \cup {SmcliCall("Image_Query_DM", [parms |-> <<"-T", "user1">>, hideInLog |-> {}],
                    Conf(0, 0), r) : r \in FailureOutputs}

InvokeSMCLI ==
    /\ op = "invokeSMCLI" /\ pc = "call"
    /\ \E in \in SmcliInputs :
          LET p == ParmsAfterLog(in.parms, in.hideInLog)
                      \o <<"--timeout", ToString(SocketTimeout(in.api, in.conf))>>
              r == SmcliOutcome(in.result, Heap("local", FreshResults, msgs, FALSE))
          IN  /\ input' = in
              /\ logged' = LoggedParms(in.parms, in.hideInLog)
              /\ parms' = p
              /\ executed' = <<"sudo", "/opt/zthin/bin/smcli", in.api, "--addRCheader">> \o p
              /\ results' = r.heap.ref
              /\ local' = r.heap.local
              /\ msgs' = r.heap.msgs
              /\ goodHeader' = r.heap.good
              /\ status' = r.status
              /\ raised' = r.raised
              /\ pc' = IF r.raised = "" THEN "done" ELSE "raised"
    /\ UNCHANGED <<op, rh, calls, printLn, slept, fsVars, waitVars>>

(***************************************************************************)
(* execCmdThruIUCV                                                         *)
(***************************************************************************)
\* The message chosen by rc once rc and rs are known.  For rc = 32 the code
\* does `msg += text` on the empty list, which leaves the list of the text's
\* characters, not the text.
IucvMessage(rc) ==
    CASE rc = 1 -> "0313" [] rc = 2 -> "0314" [] rc = 4 -> "0315" [] rc = 8 -> "0316"
      [] rc = 16 -> "0317" [] rc = 32 -> "list(0318)" [] OTHER -> "0319"

\* A handler that recovers rc but never looks for the reason code.
IucvFailureNoReason(res, l0) ==
    LET l1 == [l0 EXCEPT !.overallRC = 2, !.rc = res.returncode]
        badRc == res.rcText # "none" /\ ~IsInt(res.rcText)
        l2 == IF res.rcText # "none" /\ IsInt(res.rcText)
                 THEN [l1 EXCEPT !.rc = ParseInt[res.rcText]] ELSE l1
    IN  [l2 EXCEPT !.response = IF badRc THEN "0311" ELSE IucvMessage(l2.rc)]

\* The `except CalledProcessError` branch: rcText and rsText are the texts the
\* patterns 'Return code (.+?),' and 'Reason code (.+?)\.' capture, "none" when
\* the pattern does not match.
IucvFailure(res, l0) ==
    LET l1 == [l0 EXCEPT !.overallRC = 2, !.rc = res.returncode]
        badRc == res.rcText # "none" /\ ~IsInt(res.rcText)
        l2 == IF res.rcText # "none" /\ IsInt(res.rcText)
                 THEN [l1 EXCEPT !.rc = ParseInt[res.rcText]] ELSE l1
        badRs == ~badRc /\ res.rsText # "none" /\ ~IsInt(res.rsText)
        l3 == IF ~badRc /\ res.rsText # "none" /\ IsInt(res.rsText)
                 THEN [l2 EXCEPT !.rs = ParseInt[res.rsText]] ELSE l2
    IN  [l3 EXCEPT !.response = IF badRc THEN "0311"
                                ELSE IF badRs THEN "0312"
                                ELSE IucvMessage(l3.rc)]

\* What execCmdThruIUCV does with the outcome of the subprocess.  The clause
\* `except subprocess.TimeoutExpired` comes first, so the later clause
\* `except (subprocess.TimeoutExpired, PermissionError)` only ever sees
\* PermissionError.
IucvOutcome(res, h0) ==
    CASE res.kind = "ok" -> Put(h0, "response", "payload")
      [] res.kind = "timeout" -> Point(h0, "0501")
      [] res.kind = "cpe" -> [h0 EXCEPT !.local = IucvFailure(res, h0.local)]
      [] res.kind = "perm" ->
            [h0 EXCEPT !.local = [h0.local EXCEPT !.overallRC = 3, !.rc = 64, !.rs = 408,
                                                  !.response = "0320"]]
      [] OTHER -> Point(h0, "0421")

\* The command words logged: strCmd.split(' ') is a new list, masked and joined.
LoggedCmd(strCmd, hide) == IF hide = {} THEN strCmd ELSE Join(Mask(Split(strCmd), hide))

IucvResult(k, r, rcText, rsText) ==
    [kind |-> k, returncode |-> r, rcText |-> rcText, rsText |-> rsText]

IucvResults ==
    {IucvResult(k, 0, "none", "none") : k \in {"ok", "timeout", "perm", "exc"}}
    \cup {IucvResult("cpe", r, a, b) :
            r \in ExitCodes,
            a \in {"none", "1", "2", "4", "8", "16", "32", "7", "(8)", "x"},
            b \in {"none", "2", "(2)", "x"}}

StrCmds ==
    { [strCmd |-> <<"echo", Sp, "ping">>, hideInLog |-> {}],
      [strCmd |-> <<"chpasswd", Sp, "root", Sp, "secret">>, hideInLog |-> {3}],
      [strCmd |-> <<"login", Sp, "admin", Sp, "secret">>, hideInLog |-> {2, 3}] }

IucvInputs ==
    {[userid |-> "user1", strCmd |-> c.strCmd, hideInLog |-> c.hideInLog, result |-> r] :
        c \in StrCmds, r \in IucvResults}

ExecCmdThruIUCV ==
    /\ op = "execCmdThruIUCV" /\ pc = "call"
    /\ \E in \in IucvInputs :
          LET h == IucvOutcome(in.result, Heap("local", FreshResults, msgs, FALSE))
          IN  /\ input' = in
              /\ logged' = LoggedCmd(in.strCmd, in.hideInLog)
              /\ executed' = <<"sudo", "/opt/zthin/bin/IUCV/iucvclnt", in.userid>> \o in.strCmd
              /\ results' = h.ref
              /\ local' = h.local
              /\ msgs' = h.msgs
              /\ pc' = "done"
    /\ UNCHANGED <<op, raised, rh, calls, printLn, slept, fsVars, parms, goodHeader, status,
                   waitVars>>

(***************************************************************************)
(* One call of invokeSMCLI or of execCmdThruIUCV, from the catalog as      *)
(* imported.                                                               *)
(***************************************************************************)
FsIdle ==
    /\ diskType = "" /\ fileSystem = "" /\ out = <<>> /\ device = Unbound
    /\ diskAccessed = FALSE /\ try_num = 0 /\ sleep_idx = 0

InitCmd ==
    /\ op \in {"invokeSMCLI", "execCmdThruIUCV"} /\ pc = "call" /\ raised = ""
    /\ results = "local" /\ local = FreshResults /\ rh = UpdateResults(FreshResults)
    /\ msgs = MsgDefaults
    /\ calls = <<>> /\ printLn = <<>> /\ slept = <<>>
    /\ FsIdle
    /\ CmdIdle
    /\ WaitIdle

NextCmd == InvokeSMCLI \/ ExecCmdThruIUCV

SpecCmd == InitCmd /\ [][NextCmd]_vars

(***************************************************************************)
(* Claims about invokeSMCLI and execCmdThruIUCV.                           *)
(***************************************************************************)
Returned(o) == op = o /\ pc = "done"

Finished(o) == op = o /\ pc \in {"done", "raised"}

\* The words of the executed command line that came from the caller's
\* arguments: parms for invokeSMCLI, the words of strCmd for execCmdThruIUCV.
ExecutedArgs ==
    IF op = "invokeSMCLI" THEN SubSeq(executed, 5, 4 + Len(input.parms))
    ELSE Split(SubSeq(executed, 4, Len(executed)))

GivenArgs == IF op = "invokeSMCLI" THEN input.parms ELSE Split(input.strCmd)

\* C8: after a call with hidden positions, the executed command line holds the
\* caller's own value at every hidden position, and the log holds '<hidden>'.
C8_HiddenOnlyInLog ==
    (Finished("invokeSMCLI") \/ Finished("execCmdThruIUCV"))
        => \A pos \in input.hideInLog :
              /\ ExecutedArgs[pos] = GivenArgs[pos]
              /\ (IF op = "invokeSMCLI" THEN logged ELSE Split(logged))[pos] = "<hidden>"

\* The failure output whose first line is `words (details) tail`.
IsHeaderLine(words) ==
    /\ Finished("invokeSMCLI")
    /\ input.result.kind = "cpe"
    /\ input.result.details
    /\ input.result.hdr = Join(words) \o <<Sp>>

\* C9: a failure whose first line is '8 4 12 (details) disk busy' returns
\* overallRC=8, rc=4, rs=12, and one whose first line is
\* '25 1 1007 (details) bad opt' returns overallRC=25, rc=1, errno=1007.
C9_HeaderDecoded ==
    /\ IsHeaderLine(<<"8", "4", "12">>)
          => (pc = "done" /\ Codes(Deref(results)) = <<8, 4, 12>>)
    /\ IsHeaderLine(<<"25", "1", "1007">>)
          => /\ pc = "done"
             /\ Deref(results).overallRC = 25
             /\ Deref(results).rc = 1
             /\ Deref(results).errno = 1007

\* C10: a failure whose header has fewer than 3 whitespace-separated tokens
\* returns one of the catalog's malformed-response records (0301..0304) with
\* that message as its response, never the record decoded from the header.
C10_ShortHeaderMalformed ==
    (Finished("invokeSMCLI") /\ input.result.kind = "cpe"
        /\ Len(Tokens(input.result.hdr)) < 3)
        => /\ pc = "done"
           /\ results \in {"0301", "0302", "0303", "0304"}
           /\ Deref(results).response = results
           /\ Deref(results).overallRC = MsgDefaults[results].overallRC
           /\ ~goodHeader

C10_Witness ==
    /\ Returned("invokeSMCLI") /\ input.result.kind = "cpe"
    /\ input.result.hdr = <<"8", Sp, "4">>
    /\ results = "0301"

\* The words the code cuts the header into: the text before '(details)' split
\* at every blank.
HeaderCodes == Split(input.result.hdr)

\* A failure of smcli whose header has the three words the decoder reads.
FailedWithHeader ==
    /\ Finished("invokeSMCLI")
    /\ input.result.kind = "cpe"
    /\ Len(HeaderCodes) >= 3

\* C11: a failure whose first header word is no integer, or an integer outside
\* {8, 24, 25}, returns overallRC 25 with one of the header-error messages as
\* its response, never the formatted codes diagnostic 0300.
C11_BadOverallRCIsHeaderError ==
    (FailedWithHeader
        /\ (~IsInt(HeaderCodes[1]) \/ ParseInt[HeaderCodes[1]] \notin {8, 24, 25}))
        => /\ pc = "done"
           /\ Deref(results).overallRC = 25
           /\ Deref(results).response \in {"0302", "0303", "0304"}

\* C12: a failure whose first three header words are integers, the first one in
\* {8, 24, 25}, returns the third as rs (errno 0) for 8, as errno (rs 0) for 25,
\* and ignores it (rs 0 and errno 0) for 24.
C12_ThirdWordByOverallRC ==
    (FailedWithHeader
        /\ \A k \in 1..3 : IsInt(HeaderCodes[k])
        /\ ParseInt[HeaderCodes[1]] \in {8, 24, 25})
        => LET orc == ParseInt[HeaderCodes[1]]
               w3 == ParseInt[HeaderCodes[3]]
               r == Deref(results)
           IN  /\ pc = "done"
               /\ r.overallRC = orc
               /\ r.rs = (IF orc = 8 THEN w3 ELSE 0)
               /\ r.errno = (IF orc = 25 THEN w3 ELSE 0)

\* C13: invokeSMCLI returns a record for every exit status and every output of
\* smcli; no exception reaches the caller.
C13_NoExceptionEscapes ==
    Finished("invokeSMCLI") => (pc = "done" /\ raised = "")

\* C14: every call of invokeSMCLI tells the health tracker exactly once:
\* RecordSuccess when it returns overallRC 0, RecordFail when it returns any
\* other overallRC.
C14_HealthRecordedOnce ==
    Finished("invokeSMCLI")
        => /\ Len(status) = 1
           /\ Returned("invokeSMCLI")
                => status = (IF Deref(results).overallRC = 0
                                THEN <<"RecordSuccess">> ELSE <<"RecordFail">>)

\* C15: a timeout of the iucvclnt subprocess and a PermissionError both return
\* the fixed record overallRC=3, rc=64, rs=408.
C15_TimeoutAndPermissionAlike ==
    (Finished("execCmdThruIUCV") /\ input.result.kind \in {"timeout", "perm"})
        => (pc = "done" /\ Codes(Deref(results)) = <<3, 64, 408>>)

\* A non-zero exit of iucvclnt in whose output 'Return code (.+?),' captures rc
\* and 'Reason code (.+?)\.' captures rs.
IucvFailedWith(rc, rs) ==
    /\ Finished("execCmdThruIUCV")
    /\ input.result.kind = "cpe"
    /\ input.result.rcText = rc
    /\ input.result.rsText = rs

\* C16 as stated: output holding "Return code (8)," and "Reason code (2)."
\* returns overallRC=2, rc=8, rs=2 with message 0316 as response.
C16_ParenthesizedCodes ==
    IucvFailedWith("(8)", "(2)")
        => /\ pc = "done"
           /\ Codes(Deref(results)) = <<2, 8, 2>>
           /\ Deref(results).response = "0316"

\* C16 as amended: output holding "Return code 8," and "Reason code 2."
\* returns overallRC=2, rc=8, rs=2 with message 0316 as response.
C16_PlainCodes ==
    IucvFailedWith("8", "2")
        => /\ pc = "done"
           /\ Codes(Deref(results)) = <<2, 8, 2>>
           /\ Deref(results).response = "0316"

C16_Witness ==
    /\ IucvFailedWith("8", "2")
    /\ Returned("execCmdThruIUCV")
    /\ Deref(results).response = "0316"
    /\ input.result.returncode = 1

\* The message the seven categories assign to rc.
MessageFor(rc) ==
    CASE rc = 1 -> "0313" [] rc = 2 -> "0314" [] rc = 4 -> "0315" [] rc = 8 -> "0316"
      [] rc = 16 -> "0317" [] rc = 32 -> "0318" [] OTHER -> "0319"

\* C17: after a non-zero exit with rc and rs recovered as integers (rc being the
\* exit status when the output names no return code), overallRC is 2 and the
\* response is the one message that rc selects.
C17_SevenCategories ==
    (Finished("execCmdThruIUCV") /\ input.result.kind = "cpe"
        /\ input.result.rcText \in {"none"} \cup DOMAIN ParseInt
        /\ input.result.rsText \in {"none"} \cup DOMAIN ParseInt)
        => LET r == Deref(results)
           IN  /\ pc = "done"
               /\ r.overallRC = 2
               /\ r.rc = (IF input.result.rcText = "none" THEN input.result.returncode
                          ELSE ParseInt[input.result.rcText])
               /\ r.response = MessageFor(r.rc)

(***************************************************************************)
(* waitForOSState and waitForVMState                                       *)
(*                                                                         *)
(* One action is one pass of the `for i in range(1, maxQueries + 1)` loop: *)
(* the probe, the test of its outcome and the sleep that follows it.  pc   *)
(* is "query" while passes remain and "exit" once the loop is left.        *)
(***************************************************************************)
\* Largest maxQueries the model calls the pollers with.
MaxQueries == 3

\* `results = {}`
EmptyDict == <<>>

\* The dict literal {'overallRC': 0, 'rc': 0, 'rs': 0}
FoundResults == [overallRC |-> 0, rc |-> 0, rs |-> 0]

\* rh.printLn("ES", msgs.msg[id][1] % (modId, userid, desiredState, maxWait))
WaitLine(id, userid, desiredState, maxWait) ==
    [id |-> id, userid |-> userid, desiredState |-> desiredState, maxWait |-> maxWait]

\* A pass that goes on as if the final probe were followed by a sleep too.
SleepsAfterEveryProbe(n, maxQueries) == n <= maxQueries

\* `if i < maxQueries: time.sleep(sleepSecs)`
SleepsAfter(n, maxQueries) == n < maxQueries

\* A test that knows the state 'up' only.
OSStateFoundUpOnly(overallRC, desiredState) == overallRC = 0 /\ desiredState = "up"

\* waitForOSState: the probe's overallRC against the desired state.
OSStateFound(overallRC, desiredState) ==
    IF overallRC = 0 THEN desiredState = "up" ELSE desiredState = "down"

\* What `vmcp query user` can do: return (logged on), exit non-zero with an
\* HCP...045E or HCP...361E line (logged off), exit non-zero with other output,
\* or fail to run.
VMOutcomes ==
    {Outcome("ok", 0), Outcome("exc", 0)}
        \cup {Outcome(k, r) : k \in {"loggedoff", "cpe"}, r \in ExitCodes}

\* What the probe `echo 'ping'` through execCmdThruIUCV can do; it is called
\* without a timeout, so no TimeoutExpired.
PingResults ==
    {IucvResult(k, 0, "none", "none") : k \in {"ok", "perm", "exc"}}
    \cup {IucvResult("cpe", r, a, "none") : r \in ExitCodes, a \in {"none", "8", "x"}}

\* The end of a pass that did not break: sleep unless it was the last one, then
\* the next value of i or the end of the loop.
NextPass ==
    /\ slept' = IF SleepsAfter(i, input.maxQueries)
                   THEN Append(slept, input.sleepSecs) ELSE slept
    /\ IF i < input.maxQueries
          THEN i' = i + 1 /\ pc' = "query"
          ELSE i' = i /\ pc' = "exit"

Break == pc' = "exit" /\ UNCHANGED <<i, slept>>

WaitUnchanged == UNCHANGED <<op, raised, rh, fsVars, cmdVars>>

\* One pass of waitForOSState's loop.
QueryOS ==
    /\ op = "waitForOSState" /\ pc = "query"
    /\ \E res \in PingResults :
          LET h == IucvOutcome(res, Heap("local", FreshResults, msgs, FALSE))
          IN  /\ calls' = Append(calls, Invocation("iucvclnt", input.rhUserid, res.kind))
              /\ results' = h.ref
              /\ local' = h.local
              /\ msgs' = h.msgs
              /\ IF OSStateFound(Cur(h).overallRC, input.desiredState)
                    THEN stateFnd' = TRUE /\ Break
                    ELSE UNCHANGED stateFnd /\ NextPass
    /\ UNCHANGED printLn
    /\ WaitUnchanged

\* One pass of waitForVMState's loop.
QueryVM ==
    /\ op = "waitForVMState" /\ pc = "query"
    /\ \E o \in VMOutcomes :
          /\ calls' = Append(calls, Invocation("vmcp-query-user", input.userid, o.kind))
          /\ CASE o.kind = "ok" ->
                    /\ IF input.desiredState = "on"
                          THEN stateFnd' = TRUE /\ Break
                          ELSE UNCHANGED stateFnd /\ NextPass
                    /\ UNCHANGED <<results, local, msgs, printLn>>
               [] o.kind = "loggedoff" ->
                    /\ IF input.desiredState = "off"
                          THEN stateFnd' = TRUE /\ Break
                          ELSE UNCHANGED stateFnd /\ NextPass
                    /\ UNCHANGED <<results, local, msgs, printLn>>
               [] o.kind = "cpe" ->
                    /\ printLn' = Append(printLn, Line("0415", "vmcp-query-user", o.returncode))
                    /\ results' = "0415"
                    /\ msgs' = [msgs EXCEPT !["0415"].rs = o.returncode]
                    /\ Break
                    /\ UNCHANGED <<local, stateFnd>>
               [] OTHER ->
                    /\ printLn' = Append(printLn, Line("0421", "vmcp-query-user", 0))
                    /\ results' = "0421"
                    /\ NextPass
                    /\ UNCHANGED <<local, msgs, stateFnd>>
    /\ WaitUnchanged

\* After the loop: the success record, or the timeout message and record.
Exit(id) ==
    /\ pc = "exit"
    /\ pc' = "done"
    /\ IF stateFnd
          THEN /\ results' = "local"
               /\ local' = FoundResults
               /\ UNCHANGED printLn
          ELSE /\ printLn' = Append(printLn,
                                WaitLine(id, input.userid, input.desiredState,
                                         input.maxQueries * input.sleepSecs))
               /\ results' = id
               /\ UNCHANGED local
    /\ UNCHANGED <<msgs, calls, slept, waitVars>>
    /\ WaitUnchanged

ExitOS == op = "waitForOSState" /\ Exit("0413")

ExitVM == op = "waitForVMState" /\ Exit("0414")

WaitCall(u, ru, d, n, t) ==
    [userid |-> u, rhUserid |-> ru, desiredState |-> d, maxQueries |-> n, sleepSecs |-> t]

\* The calls the model makes: the userid argument is the request handle's
\* userid or another one; the interval is 0 or the default 5 seconds.
WaitInputs(o) ==
    {WaitCall(u, "user1", d, n, t) :
        u \in {"user1", "user2"},
        d \in (IF o = "waitForOSState" THEN {"up", "down"} ELSE {"on", "off"}),
        n \in 0..MaxQueries,
        t \in {0, 5}}

InitWait ==
    /\ op \in {"waitForOSState", "waitForVMState"}
    /\ input \in WaitInputs(op)
    /\ pc = (IF input.maxQueries >= 1 THEN "query" ELSE "exit")
    /\ i = (IF input.maxQueries >= 1 THEN 1 ELSE 0)
    /\ stateFnd = FALSE
    /\ raised = ""
    /\ results = "local" /\ local = EmptyDict /\ rh = UpdateResults(FreshResults)
    /\ msgs = MsgDefaults
    /\ calls = <<>> /\ printLn = <<>> /\ slept = <<>>
    /\ FsIdle
    /\ parms = <<>> /\ logged = <<>> /\ executed = <<>> /\ goodHeader = FALSE /\ status = <<>>

NextWait == QueryOS \/ QueryVM \/ ExitOS \/ ExitVM

SpecWait == InitWait /\ [][NextWait]_vars

(***************************************************************************)
(* Claims about waitForOSState and waitForVMState.                         *)
(***************************************************************************)
Waiting == op \in {"waitForOSState", "waitForVMState"}

\* The probe with this outcome reported the desired state.
Reports(kind, desiredState) ==
    CASE op = "waitForOSState" -> IF kind = "ok" THEN desiredState = "up"
                                  ELSE desiredState = "down"
      [] OTHER -> \/ kind = "ok" /\ desiredState = "on"
                  \/ kind = "loggedoff" /\ desiredState = "off"

\* The probe with this outcome failed abnormally (waitForVMState only: the
\* query could not run, or failed with output that names no logged-off state).
Abnormal(kind) == op = "waitForVMState" /\ kind \in {"cpe", "exc"}

NeverReported ==
    \A k \in 1..Len(calls) :
        ~Reports(calls[k].kind, input.desiredState) /\ ~Abnormal(calls[k].kind)

TimeoutId == IF op = "waitForOSState" THEN "0413" ELSE "0414"

\* C18: with maxQueries = n >= 1 and probes that never report the desired
\* state, the call returns after exactly n probes and n-1 sleeps of sleepSecs
\* with the timeout record (0413 resp. 0414), and its message gives
\* maxWait = n * sleepSecs.
C18_TimeoutAfterAllQueries ==
    (Waiting /\ input.maxQueries >= 1 /\ NeverReported)
        => /\ Len(calls) <= input.maxQueries
           /\ Len(slept) <= input.maxQueries - 1
           /\ pc \in {"exit", "done"}
                => /\ Len(calls) = input.maxQueries
                   /\ slept = [k \in 1..(input.maxQueries - 1) |-> input.sleepSecs]
                   /\ ~stateFnd
           /\ pc = "done"
                => /\ results = TimeoutId
                   /\ Codes(Deref(results)) = Codes(MsgDefaults[TimeoutId])
                   /\ Deref(results).overallRC # 0
                   /\ printLn = <<WaitLine(TimeoutId, input.userid, input.desiredState,
                                           input.maxQueries * input.sleepSecs)>>

C18_Witness ==
    /\ op = "waitForVMState" /\ pc = "done" /\ NeverReported
    /\ input.maxQueries = 3 /\ input.sleepSecs = 5
    /\ Len(calls) = 3 /\ slept = <<5, 5>>
    /\ results = "0414"

\* The first probe that reported the desired state, 0 if none did.
FirstReport ==
    LET hits == {k \in 1..Len(calls) : Reports(calls[k].kind, input.desiredState)}
    IN  IF hits = {} THEN 0 ELSE CHOOSE k \in hits : \A h \in hits : k <= h

\* C19: when the j-th probe is the first to report the desired state, the loop
\* is left at once: j probes and j-1 sleeps have been made, none follows, and
\* the record returned is overallRC=0, rc=0, rs=0.
C19_StopsAtFirstReport ==
    (Waiting /\ FirstReport > 0)
        => /\ Len(calls) = FirstReport
           /\ slept = [k \in 1..(FirstReport - 1) |-> input.sleepSecs]
           /\ pc \in {"exit", "done"}
           /\ pc = "done" => (results = "local" /\ Codes(Deref(results)) = <<0, 0, 0>>)

C19_Witness ==
    /\ op = "waitForOSState" /\ pc = "done"
    /\ input.desiredState = "down" /\ input.maxQueries = 3
    /\ FirstReport = 2 /\ Len(slept) = 1
    /\ Codes(Deref(results)) = <<0, 0, 0>>

(***************************************************************************)
(* Claims about the timeout invokeSMCLI passes to smcli.                   *)
(***************************************************************************)
\* The timeout as stated: the long-call chain for the long-call api, the
\* general chain for every other api.
StatedTimeout(a, conf) ==
    IF a = "VMRELOCATE"
       THEN IF conf.long # 0 THEN conf.long
            ELSE IF conf.general # 0 THEN conf.general ELSE 900
       ELSE IF conf.general # 0 THEN conf.general ELSE 240

\* C20: the arguments handed to smcli end with '--timeout T', T being the
\* configured long-call timeout, else the configured general timeout, else 900
\* for a long-call api, and the configured general timeout, else 240, for every
\* other api.
C20_TimeoutAppended ==
    Finished("invokeSMCLI")
        => /\ Len(executed) >= 2
           /\ SubSeq(executed, Len(executed) - 1, Len(executed))
                 = <<"--timeout", ToString(StatedTimeout(input.api, input.conf))>>

(***************************************************************************)
(* Claims about the steps of installFS and their order.                    *)
(***************************************************************************)
LastCall == calls[Len(calls)]

\* The step taken invoked one more command.
Invoked == Len(calls') = Len(calls) + 1

\* C21: the flush is invoked before the detach, and a flush that fails leaves
\* the result record and the request handle's codes as they were, logs a
\* warning, and is still followed by the detach command.
C21_FlushFailureIsWarning ==
    [][(op = "installFS" /\ op' = "installFS")
        => /\ (pc = "flush" /\ Invoked)
                => /\ calls'[Len(calls')].cmd = "blockdev-flushbufs"
                   /\ pc' = "detach"
                   /\ calls'[Len(calls')].kind # "ok"
                        => /\ results' = results
                           /\ DerefIn(results', local', msgs') = Deref(results)
                           /\ rh' = rh
                           /\ printLn' = Append(printLn, Line("WS", "blockdev-flushbufs", 0))
           /\ pc = "detach"
                => /\ LastCall.cmd = "blockdev-flushbufs"
                   /\ Invoked
                   /\ calls'[Len(calls')].cmd = "offlinediskanddetach"]_vars

C21_Witness ==
    /\ op = "installFS" /\ pc = "done" /\ Ok
    /\ Len(calls) >= 2
    /\ calls[Len(calls) - 1] = Invocation("blockdev-flushbufs", "/dev/dasdh1", "cpe")
    /\ LastCall = Invocation("offlinediskanddetach", "", "ok")
    /\ printLn = <<Line("WS", "blockdev-flushbufs", 0)>>

\* No step before the release step has reported a failure.
NoEarlierFailure ==
    \A k \in 1..(Len(printLn) - 1) : printLn[k].id = "WS"

\* C22: when every step before the release succeeded and offlinediskanddetach
\* exits non-zero, installFS returns a failure record: overallRC is not 0 and
\* rs is the exit status of the detach command.
C22_DetachFailureReturned ==
    (op = "installFS" /\ pc = "done" /\ Count(StepCmds("mkfs")) >= 1
        /\ LastCall.cmd = "offlinediskanddetach" /\ LastCall.kind = "cpe"
        /\ NoEarlierFailure)
        => /\ Len(printLn) >= 1
           /\ printLn[Len(printLn)].cmd = "offlinediskanddetach"
           /\ Deref(results).overallRC # 0
           /\ Deref(results).rs = printLn[Len(printLn)].returncode
           /\ rh.overallRC # 0 /\ rh.rs = Deref(results).rs

C22_Witness ==
    /\ op = "installFS" /\ pc = "done" /\ diskType = "3390"
    /\ Attempts(StepCmds("mkfs")) = <<Invocation("mkfs", "/dev/dasdh1", "ok")>>
    /\ LastCall = Invocation("offlinediskanddetach", "", "cpe")
    /\ printLn = <<Line("0415", "offlinediskanddetach", 2)>>
    /\ Codes(Deref(results)) = <<3, 415, 2>>

\* Commands that take the device located in the link output.
DeviceCmds == {"dasdfmt", "fdasd", "fdisk-delete", "fdisk-create"}

FormatCmds == DeviceCmds \cup {"udevsettle"} \cup StepCmds("mkfs")

\* The link command has just succeeded and nothing was run since: `out` is its
\* output and the device has been looked for.
Located ==
    /\ op = "installFS" /\ pc = "dasdfmt"
    /\ Len(calls) >= 1
    /\ LastCall = Invocation("linkdiskandbringonline", "", "ok")

\* C23: after a successful link the device is '/dev/' followed by the 10th
\* word after the 'Success:' marker, and every later step uses it (mkfs its
\* first partition); when the marker is absent the outcome is 0417, when fewer
\* than 10 words follow it the outcome is 0416, and then no format, partition
\* or mkfs command is ever invoked.
C23_DeviceFromTenthWord ==
    /\ Located =>
          IF out.marker /\ Len(out.parts) >= 10
             THEN Ok /\ device = "/dev/" \o out.parts[10]
             ELSE results = (IF out.marker THEN "0416" ELSE "0417")
    /\ op = "installFS" =>
          /\ \A k \in 1..Len(calls) :
                /\ calls[k].cmd \in DeviceCmds => calls[k].arg = "/dev/" \o SampleWords[10]
                /\ calls[k].cmd \in StepCmds("mkfs")
                      => calls[k].arg = "/dev/" \o SampleWords[10] \o "1"
          /\ (\E k \in 1..Len(printLn) : printLn[k].id \in {"0416", "0417"})
                => Count(FormatCmds) = 0

\* C27: for disk type 9336 the first fdisk create attempt directly follows a
\* device-settle command, which directly follows the fdisk delete.
C27_SettleBetweenDeleteAndCreate ==
    (op = "installFS" /\ diskType = "9336")
        => \A k \in 1..Len(calls) :
              (calls[k].cmd = "fdisk-create" /\ (k = 1 \/ calls[k - 1].cmd # "fdisk-create"))
                  => /\ k >= 3
                     /\ calls[k - 1].cmd = "udevsettle"
                     /\ calls[k - 2].cmd = "fdisk-delete"

\* C28: for disk type 3390 the commands dasdfmt, device-settle, fdasd run in
\* this order, each only after the one before it succeeded, and no fdisk
\* command is invoked; for disk type 9336 neither dasdfmt nor fdasd is invoked.
C28_ToolChainByDiskType ==
    op = "installFS"
        => /\ diskType = "3390"
                => /\ Count({"fdisk-delete", "fdisk-create"}) = 0
                   /\ \A k \in 1..Len(calls) :
                         /\ calls[k].cmd = "dasdfmt"
                               => (k >= 2 /\ calls[k - 1] = Invocation("linkdiskandbringonline", "", "ok"))
                         /\ (k >= 2 /\ calls[k - 1].cmd = "dasdfmt")
                               => /\ calls[k].cmd \in {"udevsettle", "blockdev-flushbufs"}
                                  /\ calls[k].cmd = "udevsettle" <=> calls[k - 1].kind = "ok"
                         /\ calls[k].cmd = "fdasd"
                               => /\ k >= 3
                                  /\ calls[k - 1] = Invocation("udevsettle", "", "ok")
                                  /\ calls[k - 2].cmd = "dasdfmt"
                         /\ (k >= 3 /\ calls[k - 1].cmd = "udevsettle" /\ calls[k - 2].cmd = "dasdfmt")
                               => /\ calls[k].cmd \in {"fdasd", "blockdev-flushbufs"}
                                  /\ calls[k].cmd = "fdasd" <=> calls[k - 1].kind = "ok"
           /\ diskType = "9336" => Count({"dasdfmt", "fdasd"}) = 0

C28_Witness ==
    /\ op = "installFS" /\ diskType = "3390" /\ pc = "settle"
    /\ Len(calls) = 4
    /\ calls[2] = Invocation("dasdfmt", "/dev/dasdh", "ok")
    /\ calls[3] = Invocation("udevsettle", "", "ok")
    /\ calls[4] = Invocation("fdasd", "/dev/dasdh", "ok")

\* A step before the release step has reported a failure in this call.
FailureReported ==
    \E k \in 1..Len(printLn) : printLn[k].id \in {"0415", "0416", "0417", "0421"}

\* C29: once a step before the release step has produced a failure outcome, the
\* only commands still invoked in that call are the flush and the detach.
C29_GatedAfterFailure ==
    [][(op = "installFS" /\ pc \notin {"done", "raised"} /\ FailureReported /\ Invoked)
        => calls'[Len(calls')].cmd \in {"blockdev-flushbufs", "offlinediskanddetach"}]_vars

C29_Witness ==
    /\ op = "installFS" /\ pc = "done" /\ diskType = "9336"
    /\ Len(calls) = 4
    /\ calls[2] = Invocation("fdisk-delete", "/dev/dasdh", "cpe")
    /\ calls[3].cmd = "blockdev-flushbufs"
    /\ calls[4].cmd = "offlinediskanddetach"
    /\ printLn[1] = Line("0415", "fdisk-delete", 1)

\* The four codes of a record.
AllCodes(r) == <<r.overallRC, r.rc, r.rs, r.errno>>

\* C24: no step of any operation changes the codes of a default record of the
\* message catalog; a record an operation returned, which may be such a default
\* record, therefore keeps its codes during every later call.
C24_CatalogCodesKept ==
    [][\A id \in MsgIds : AllCodes(msgs'[id]) = AllCodes(msgs[id])]_vars

\* The two fallback chains as stated.
LongChain(conf) ==
    IF conf.long # 0 THEN conf.long ELSE IF conf.general # 0 THEN conf.general ELSE 900

GeneralChain(conf) == IF conf.general # 0 THEN conf.general ELSE 240

\* C30: where the two chains give different values, the timeout handed to smcli
\* is the long-call one exactly when the api name is 'VMRELOCATE'.
C30_LongCallOnlyForVMRELOCATE ==
    (Finished("invokeSMCLI") /\ LongChain(input.conf) # GeneralChain(input.conf))
        => /\ Len(executed) >= 1
           /\ executed[Len(executed)] = ToString(LongChain(input.conf))
                 <=> input.api = "VMRELOCATE"
           /\ executed[Len(executed)] = ToString(GeneralChain(input.conf))
                 <=> input.api # "VMRELOCATE"

(***************************************************************************)
(* disableEnableDisk                                                       *)
(*                                                                         *)
(* One action is one pass of the loop `for secs in [...]`: the chccwdev    *)
(* command sent through execCmdThruIUCV, the test of its record and the    *)
(* sleep.  The pass number is the number of commands sent so far plus one. *)
(***************************************************************************)
\* `results = {'overallRC': 0, 'rc': 0, 'rs': 0, 'response': ''}`
DiskResults == [overallRC |-> 0, rc |-> 0, rs |-> 0, response |-> ""]

\* [0.1, 0.4, 1, 1.5, 3, 7, 15, 32, 30, 30, 60, 60, 60, 60, 60] in tenths of a
\* second.
DiskSchedule ==
    <<1, 4, 10, 15, 30, 70, 150, 320, 300, 300, 600, 600, 600, 600, 600>>

\* A test that does not look at the option.
AlreadyDisabledAnyOption(r, option) ==
    r.overallRC = 2 /\ r.rc = 8 /\ r.rs = 1

\* The test that ends the loop as a success although the command failed.
AlreadyDisabled(r, option) ==
    r.overallRC = 2 /\ r.rc = 8 /\ r.rs = 1 /\ option = "-d"

\* What chccwdev sent through IUCV can do: succeed, or fail with the codes the
\* output names (8/1: the device is not known to Linux) or with none.
ChccwdevResults ==
    {IucvResult("ok", 0, "none", "none")}
    \cup {IucvResult("cpe", r, t[1], t[2]) :
            r \in ExitCodes, t \in {<<"8", "1">>, <<"8", "2">>, <<"none", "none">>}}

Chccwdev ==
    /\ op = "disableEnableDisk" /\ pc = "attempt"
    /\ \E res \in ChccwdevResults :
          LET n == Len(calls) + 1
              h == IucvOutcome(res, Heap("local", FreshResults, msgs, FALSE))
              r == Cur(h)
          IN  /\ calls' = Append(calls, Invocation("chccwdev", input.option, res.kind))
              /\ msgs' = h.msgs
              /\ IF r.overallRC = 0
                    THEN /\ results' = h.ref /\ local' = h.local
                         /\ pc' = "done"
                         /\ UNCHANGED slept
                    ELSE IF AlreadyDisabled(r, input.option)
                    THEN /\ results' = "local" /\ local' = DiskResults
                         /\ pc' = "done"
                         /\ UNCHANGED slept
                    ELSE /\ results' = h.ref /\ local' = h.local
                         /\ slept' = Append(slept, DiskSchedule[n])
                         /\ pc' = IF n < Len(DiskSchedule) THEN "attempt" ELSE "done"
    /\ UNCHANGED <<op, raised, rh, printLn, fsVars, cmdVars, waitVars>>

DiskInputs == {[userid |-> "user1", vaddr |-> "0100", option |-> o] : o \in {"-d", "-e"}}

InitDisk ==
    /\ op = "disableEnableDisk" /\ pc = "attempt" /\ raised = ""
    /\ input \in DiskInputs
    /\ results = "local" /\ local = DiskResults /\ rh = UpdateResults(FreshResults)
    /\ msgs = MsgDefaults
    /\ calls = <<>> /\ printLn = <<>> /\ slept = <<>>
    /\ FsIdle
    /\ parms = <<>> /\ logged = <<>> /\ executed = <<>> /\ goodHeader = FALSE /\ status = <<>>
    /\ WaitIdle

NextDisk == Chccwdev

SpecDisk == InitDisk /\ [][NextDisk]_vars

(***************************************************************************)
(* Claims about disableEnableDisk.                                         *)
(***************************************************************************)
RECURSIVE Sum(_)
Sum(q) == IF q = <<>> THEN 0 ELSE Head(q) + Sum(Tail(q))

\* C26: one call makes at most 15 chccwdev attempts, makes none after an
\* attempt that succeeded, and sleeps no more than 360 seconds in total
\* (3600 tenths of a second).
C26_DiskRetryBudget ==
    op = "disableEnableDisk"
        => /\ Len(calls) <= 15
           /\ \A k \in 1..(Len(calls) - 1) : calls[k].kind # "ok"
           /\ (Len(calls) >= 1 /\ LastCall.kind = "ok") => pc = "done"
           /\ Sum(slept) <= 3600

(***************************************************************************)
(* punch2reader                                                            *)
(*                                                                         *)
(* pc: "punch" (a pass of the loop `for secs in [1, 2, 3, 5, 10]`; the     *)
(* pass number is the number of punch commands run so far plus one),       *)
(* "classify" (the tests of results['rc'] after the loop), "class",        *)
(* "purgeClass", "transfer", "purgeTransfer", "done".                      *)
(***************************************************************************)
\* `results = {}; results['rc'] = 9`
PunchResults == [rc |-> 9, response |-> ""]

PunchSchedule == <<1, 2, 3, 5, 10>>

\* re.findall(r'\d+', str(results['response'])): the runs of digits in the
\* output of the punch command.
SpoolIds(response) == IF response = "Reader file with spoolid 0042 created." THEN <<"0042">> ELSE <<>>

\* vmur punch: output naming the spool file, output without any digit, the
\* conflict with a concurrent vmur, another non-zero exit, another exception.
PunchOutcomes ==
    {[kind |-> "ok", output |-> "Reader file with spoolid 0042 created."],
     [kind |-> "ok", output |-> "Reader file created."],
     [kind |-> "conflict", output |-> "A concurrent instance of vmur is already active"],
     [kind |-> "cpe", output |-> "vmur: Unable to open file"],
     [kind |-> "exc", output |-> ""]}

CurrentHeap == Heap(results, local, msgs, FALSE)

\* The heap h becomes the state's heap.
Store(h) == results' = h.ref /\ local' = h.local /\ msgs' = h.msgs

\* The end of a pass that did not break.
NextPunch(n) == pc' = IF n < Len(PunchSchedule) THEN "punch" ELSE "classify"

PunchUnchanged == UNCHANGED <<op, input, parms, logged, executed, goodHeader, status, fsVars, waitVars>>

Punch ==
    /\ op = "punch2reader" /\ pc = "punch"
    /\ \E o \in PunchOutcomes :
          LET n == Len(calls) + 1
              h1 == Put(CurrentHeap, "response", o.output)
          IN  /\ calls' = Append(calls, Invocation("vmur-punch", input.fileLoc, o.kind))
              /\ CASE o.kind = "ok" ->
                        LET h2 == Put(h1, "rc", 0)
                        IN  /\ Store(h2)
                            /\ rh' = MergeResults(rh, Cur(h2))
                            /\ pc' = "classify"
                            /\ UNCHANGED <<slept, printLn>>
                   [] o.kind = "cpe" ->
                        /\ Store(Put(h1, "rc", 7))
                        /\ pc' = "classify"
                        /\ UNCHANGED <<rh, slept, printLn>>
                   [] o.kind = "conflict" ->
                        /\ Store(h1)
                        /\ slept' = Append(slept, PunchSchedule[n])
                        /\ NextPunch(n)
                        /\ UNCHANGED <<rh, printLn>>
                   [] OTHER ->
                        /\ printLn' = Append(printLn, Line("0421", "vmur-punch", 0))
                        /\ Store([CurrentHeap EXCEPT !.ref = "0421"])
                        /\ rh' = MergeResults(rh, msgs["0421"])
                        /\ NextPunch(n)
                        /\ UNCHANGED slept
    /\ UNCHANGED raised
    /\ PunchUnchanged

\* `if results['rc'] == 7: ... elif results['rc'] == 9: ...`
Classify ==
    /\ op = "punch2reader" /\ pc = "classify"
    /\ pc' = "class"
    /\ LET id == IF Deref(results).rc = 7 THEN "0401"
                 ELSE IF Deref(results).rc = 9 THEN "0406" ELSE ""
       IN  IF id = "" THEN UNCHANGED <<printLn, rh>>
           ELSE /\ printLn' = Append(printLn, Line(id, "vmur-punch", 0))
                /\ rh' = MergeResults(rh, msgs[id])
    /\ UNCHANGED <<results, local, msgs, calls, slept, raised>>
    /\ PunchUnchanged

\* spoolId[0] once the class change has been invoked: the local keeps the
\* value that command was invoked with.
SpoolId == calls[CHOOSE k \in 1..Len(calls) : calls[k].cmd = "vmcp-change-rdr"].arg

\* A vmcp command on spool file a.  On success its output is stored, and
\* handed to the request handle where the step does so (upd).  A non-zero exit
\* prints message onCpe, records it where the catalog record is handed over,
\* and goes on at nextCpe.  Any other exception prints 0421, which the step
\* records (upd) or only prints.
Vmcp(c, a, next, onCpe, nextCpe, upd) ==
    \E k \in {"ok", "cpe", "exc"} :
        /\ calls' = Append(calls, Invocation(c, a, k))
        /\ CASE k = "ok" ->
                  LET h == Put(CurrentHeap, "response", c)
                  IN  /\ Store(h)
                      /\ rh' = IF upd THEN MergeResults(rh, Cur(h)) ELSE rh
                      /\ pc' = next
                      /\ UNCHANGED printLn
             [] k = "cpe" ->
                  /\ printLn' = Append(printLn, Line(onCpe, c, 0))
                  /\ rh' = IF upd THEN MergeResults(rh, msgs[onCpe]) ELSE rh
                  /\ pc' = nextCpe
                  /\ UNCHANGED <<results, local, msgs>>
             [] OTHER ->
                  /\ printLn' = Append(printLn, Line("0421", c, 0))
                  /\ IF upd
                        THEN /\ Store([CurrentHeap EXCEPT !.ref = "0421"])
                             /\ rh' = MergeResults(rh, msgs["0421"])
                        ELSE UNCHANGED <<results, local, msgs, rh>>
                  /\ pc' = next

\* On success of the punch, change the class of the spool file.  spoolId[0] is
\* evaluated outside any try: without a digit in the output it raises
\* IndexError.
ChangeClass ==
    /\ op = "punch2reader" /\ pc = "class"
    /\ IF rh.overallRC # 0
          THEN /\ pc' = "transfer"
               /\ UNCHANGED <<results, local, msgs, rh, calls, printLn, raised>>
          ELSE IF SpoolIds(Deref(results).response) = <<>>
          THEN /\ pc' = "raised" /\ raised' = "IndexError"
               /\ UNCHANGED <<results, local, msgs, rh, calls, printLn>>
          ELSE /\ Vmcp("vmcp-change-rdr", SpoolIds(Deref(results).response)[1], "transfer", "0404", "purgeClass", TRUE)
               /\ UNCHANGED raised
    /\ UNCHANGED slept
    /\ PunchUnchanged

\* The class change failed: delete the punched file.
PurgeAfterClass ==
    /\ op = "punch2reader" /\ pc = "purgeClass"
    /\ Vmcp("vmcp-purge-rdr", SpoolId, "transfer", "0403", "transfer", FALSE)
    /\ UNCHANGED <<slept, raised>>
    /\ PunchUnchanged

\* Transfer the file to the target user.
Transfer ==
    /\ op = "punch2reader" /\ pc = "transfer"
    /\ IF rh.overallRC # 0
          THEN /\ pc' = "done"
               /\ UNCHANGED <<results, local, msgs, rh, calls, printLn>>
          ELSE Vmcp("vmcp-transfer", SpoolId, "done", "0424", "purgeTransfer", TRUE)
    /\ UNCHANGED <<slept, raised>>
    /\ PunchUnchanged

\* The transfer failed: delete the punched file.
PurgeAfterTransfer ==
    /\ op = "punch2reader" /\ pc = "purgeTransfer"
    /\ Vmcp("vmcp-purge-rdr", SpoolId, "done", "0403", "done", FALSE)
    /\ UNCHANGED <<slept, raised>>
    /\ PunchUnchanged

PunchInputs == {[userid |-> "user1", fileLoc |-> "/tmp/file", spoolClass |-> "X"]}

InitPunch ==
    /\ op = "punch2reader" /\ pc = "punch" /\ raised = ""
    /\ input \in PunchInputs
    /\ results = "local" /\ local = PunchResults /\ rh = UpdateResults(FreshResults)
    /\ msgs = MsgDefaults
    /\ calls = <<>> /\ printLn = <<>> /\ slept = <<>>
    /\ FsIdle
    /\ parms = <<>> /\ logged = <<>> /\ executed = <<>> /\ goodHeader = FALSE /\ status = <<>>
    /\ WaitIdle

NextPunchStep ==
    \/ Punch \/ Classify \/ ChangeClass \/ PurgeAfterClass \/ Transfer \/ PurgeAfterTransfer

SpecPunch == InitPunch /\ [][NextPunchStep]_vars

\* The vmur punch invocations of the call, in order.
Punches == SelectSeq(calls, LAMBDA c : c.cmd = "vmur-punch")

PrintedId(id) == \E k \in 1..Len(printLn) : printLn[k].id = id

\* C25: one call punches at most 5 times; a punch other than the first
\* directly follows a punch that ended with a non-zero exit reporting a
\* concurrent vmur instance; the timeout outcome 0406 is given only when 5
\* punches all hit that conflict; a punch that ended with another non-zero
\* exit is the last one, and once the loop has been left its outcome is the
\* punch failure 0401.
C25_PunchRetriedOnlyOnConflict ==
    op = "punch2reader" =>
        /\ Len(Punches) <= 5
        /\ \A k \in 2..Len(Punches) : Punches[k - 1].kind = "conflict"
        /\ PrintedId("0406") =>
              /\ Len(Punches) = 5
              /\ \A k \in 1..5 : Punches[k].kind = "conflict"
        /\ \A k \in 1..Len(Punches) :
              Punches[k].kind = "cpe" =>
                  /\ k = Len(Punches)
                  /\ pc # "punch"
                  /\ pc # "classify" =>
                        /\ PrintedId("0401")
                        /\ Codes(rh) = Codes(MsgDefaults["0401"])

(***************************************************************************)
(* Claims about abnormal failures and the target of the pollers.           *)
(***************************************************************************)
\* The 0415 lines printed for the status query, i.e. its abnormal failures.
AbnormalLines == SelectSeq(printLn, LAMBDA l : l.id = "0415")

\* C31: waitForVMState returns the timeout record 0414 only after maxQueries
\* queries none of which reached the desired state; a
\* query that exits non-zero with output naming no logged-off state is the
\* last query, and the record returned is 0415 with rs = its exit status.
C31_AbnormalFailureReturned ==
    op = "waitForVMState" =>
        /\ (pc = "done" /\ results = "0414")
              => (Len(calls) = input.maxQueries /\ FirstReport = 0)
        /\ AbnormalLines # <<>>
              => /\ LastCall.kind = "cpe"
                 /\ pc \in {"exit", "done"}
                 /\ pc = "done"
                       => /\ results = "0415"
                          /\ Deref(results).rs = AbnormalLines[1].returncode

\* The record of the latest attempt says that Linux does not know the device.
NotKnownToLinux == Codes(Deref(results)) = <<2, 8, 1>>

\* C32: with option '-d' an attempt that returns overallRC=2, rc=8, rs=1 is
\* never kept as a failure: the loop ends with the record 0/0/0, without a
\* sleep and without a further attempt.  With option '-e' a failed attempt
\* never becomes a success, and after one that returned 2/8/1 the call has
\* slept and, while attempts remain, goes on to the next attempt.
C32_AlreadyDisabledOnlyForDisable ==
    (op = "disableEnableDisk" /\ calls # <<>> /\ LastCall.kind = "cpe") =>
        /\ input.option = "-d" =>
              /\ ~NotKnownToLinux
              /\ Deref(results).overallRC = 0 =>
                    /\ Codes(Deref(results)) = <<0, 0, 0>>
                    /\ pc = "done"
                    /\ Len(slept) = Len(calls) - 1
        /\ input.option = "-e" =>
              /\ Deref(results).overallRC # 0
              /\ NotKnownToLinux =>
                    /\ Len(slept) = Len(calls)
                    /\ Len(calls) < Len(DiskSchedule) => pc = "attempt"

C32_Witness ==
    /\ op = "disableEnableDisk" /\ input.option = "-d" /\ pc = "done"
    /\ Len(calls) = 2 /\ calls[1].kind = "cpe" /\ LastCall.kind = "cpe"
    /\ Codes(Deref(results)) = <<0, 0, 0>>
    /\ slept = <<DiskSchedule[1]>>

(***************************************************************************)
(* Claims about the clean-up of punch2reader.                              *)
(***************************************************************************)
\* The invocations of one vmcp command, in order.
CallsOf(c) == SelectSeq(calls, LAMBDA x : x.cmd = c)

ClassFailed == CallsOf("vmcp-change-rdr") # <<>> /\ CallsOf("vmcp-change-rdr")[1].kind # "ok"

ClassChanged == CallsOf("vmcp-change-rdr") # <<>> /\ CallsOf("vmcp-change-rdr")[1].kind = "ok"

TransferFailed == CallsOf("vmcp-transfer") # <<>> /\ CallsOf("vmcp-transfer")[1].kind # "ok"

Transferred == CallsOf("vmcp-transfer") # <<>> /\ CallsOf("vmcp-transfer")[1].kind = "ok"

\* C33: after a successful punch, a failed class change is followed by exactly
\* one purge and by no transfer; a failed transfer is followed by exactly one
\* purge; whatever the purge does, the request handle keeps the codes the
\* failure recorded (0404 resp. 0424); and no purge is made when class change
\* and transfer both succeed.
C33_PurgeAfterFailedStep ==
    op = "punch2reader" =>
        /\ Len(CallsOf("vmcp-purge-rdr")) <= 1
        /\ ClassFailed =>
              /\ CallsOf("vmcp-transfer") = <<>>
              /\ pc \in {"transfer", "done"} =>
                    /\ Len(CallsOf("vmcp-purge-rdr")) = 1
                    /\ Codes(rh) = Codes(MsgDefaults["0404"])
        /\ (ClassChanged /\ TransferFailed /\ pc = "done") =>
              /\ Len(CallsOf("vmcp-purge-rdr")) = 1
              /\ Codes(rh) = Codes(MsgDefaults["0424"])
        /\ (ClassChanged /\ Transferred) => CallsOf("vmcp-purge-rdr") = <<>>

\* C34: every probe of waitForOSState is sent to the virtual machine named by
\* the userid argument, which is also the userid of the timeout message.
C34_ProbesTargetUserid ==
    op = "waitForOSState" =>
        /\ \A k \in 1..Len(calls) : calls[k].arg = input.userid
        /\ \A k \in 1..Len(printLn) :
              printLn[k].id = "0413" => printLn[k].userid = input.userid

====
